---- MODULE Spec2Model ----
(***************************************************************************)
(* Model of the prediction API of src/main.py: the data directory, the     *)
(* models directory, and the request handlers predict, signal,             *)
(* debug_prices and available_coins.                                        *)
(*                                                                         *)
(* Numbers.  Prices are binary floating point numbers in the program.  The *)
(* model keeps every price as an integer count of 1/Unit (Unit = 2^8), so  *)
(* every modelled price is a dyadic rational that a double holds exactly,  *)
(* and Python's round(), which rounds the exact binary value half-to-even, *)
(* is RoundHalfEven below.  Scaled values are counts of 1/ScaleUnit.       *)
(* Rounded results are decimal: confidence and change in 1/10^4,           *)
(* predicted_price and last_price in 1/10^2.                               *)
(*                                                                         *)
(* File names are sequences of name parts, <<"btc", ".json">> for          *)
(* data/btc.json, so that endswith and replace act on them as on strings.  *)
(***************************************************************************)
EXTENDS Integers, Sequences, FiniteSets, TLC

VARIABLES dataDir, modelsDir, pc, op, coin, window, scaler, loads, inverted, resp

vars == <<dataDir, modelsDir, pc, op, coin, window, scaler, loads, inverted, resp>>

storage == <<dataDir, modelsDir>>

----------------------------------------------------------------------------
(* Program constants *)

WindowLen == 60

MinSignalPoints == 2

HoldThreshold == 1

ConfidenceDigits == 4

PriceDigits == 2

SignalDigits == 4

MarketsPerPage == 100

(* Bounds of the model *)

MaxExtra == 2

NumClients == 2

(* Number representation *)

Unit == 2 ^ 8

ScaleUnit == 2 ^ 12

Clients == 1 .. NumClients

----------------------------------------------------------------------------
(* Arithmetic *)

Abs(x) == IF x < 0 THEN 0 - x ELSE x

Min(a, b) == IF a < b THEN a ELSE b

Pow10(n) == 10 ^ n

\* The integer nearest to n / d (d > 0), a tie going to the even neighbour:
\* Python's round() on a float that holds n / d exactly.
RoundHalfEven(n, d) ==
    LET q == n \div d
        r == n % d
    IN  IF 2 * r < d THEN q
        ELSE IF 2 * r > d THEN q + 1
        ELSE IF q % 2 = 0 THEN q ELSE q + 1

\* round(float(x), digits) of a price x (in 1/Unit), in 1/10^digits.
RoundPrice(x, digits) == RoundHalfEven(x * Pow10(digits), Unit)

\* numpy's float division num / den of two prices, then round(float(.), digits):
\* a zero divisor gives inf or nan (a RuntimeWarning, no exception), and round()
\* returns a non-finite float unchanged.  The finite case is exact where the
\* quotient is off a decimal tie or is a dyadic rational; the scenarios keep
\* to such quotients.
RoundQuotient(num, den, digits) ==
    IF den = 0
    THEN IF num = 0 THEN [kind |-> "nan", v |-> 0]
         ELSE IF num > 0 THEN [kind |-> "inf", v |-> 1]
         ELSE [kind |-> "inf", v |-> 0 - 1]
    ELSE [kind |-> "num",
          v |-> IF den > 0 THEN RoundHalfEven(num * Pow10(digits), den)
                ELSE RoundHalfEven((0 - num) * Pow10(digits), 0 - den)]

----------------------------------------------------------------------------
(* Storage: file names and JSON contents *)

JsonExt == ".json"

ScalerExt == "_scaler.gz"

ModelExt == ".h5"

\* f"data/{coin}.json"
DataPath(c) == c \o <<JsonExt>>

\* f"models/{coin}_scaler.gz"
ScalerPath(c) == c \o <<ScalerExt>>

\* f"models/{coin}.h5"
ModelPath(c) == c \o <<ModelExt>>

\* f.endswith(".json")
EndsWithJson(f) == Len(f) > 0 /\ f[Len(f)] = JsonExt

\* f.replace(".json", ""): every occurrence is removed, not only the suffix
StripJson(f) == SelectSeq(f, LAMBDA part : part # JsonExt)

RecordEntry(p) == [form |-> "record", price |-> p]

BareEntry(p) == [form |-> "bare", price |-> p]

NoPriceEntry == [form |-> "noprice", price |-> 0]

Btc == <<"btc">>

Eth == <<"eth">>

Doge == <<"doge">>

Markets == <<"markets">>

Symbols == {Btc, Eth, Doge, Markets}

\* Spacing of the older prices of a generated series (0.25).
RampStep == Unit \div 4

\* The price k places before the end of a generated series: the last price, the
\* one before it (last - change), and a ramp of distinct prices before those.
SeriesPrice(k, last, change) ==
    IF k = 0 THEN last ELSE last - change + (k - 1) * RampStep

\* A stored series of n entries in chronological order.  bad places one entry
\* that is not a record with a price: the oldest entry of the window, the entry
\* just before the window, or the last entry.
Series(n, last, change, bad) ==
    [i \in 1 .. n |->
        LET k == n - i
            p == SeriesPrice(k, last, change)
        IN  IF bad = "bareInWindow" /\ k = WindowLen - 1 THEN BareEntry(p)
            ELSE IF bad = "noPriceInWindow" /\ k = WindowLen - 1 THEN NoPriceEntry
            ELSE IF bad = "bareBeforeWindow" /\ k = WindowLen THEN BareEntry(p)
            ELSE IF bad = "bareLast" /\ k = 0 THEN BareEntry(p)
            ELSE RecordEntry(p)]

PriceFile(json) == [role |-> "prices", json |-> json]

\* data/markets.json, the fallback of the market proxy: a page of market rows,
\* none of which has a "price" key.
MarketsFile == [role |-> "markets", json |-> [i \in 1 .. MarketsPerPage |-> NoPriceEntry]]

TextFile == [role |-> "other", json |-> <<>>]

\* A fitted min-max scaler: least price dmin and price range range (both in
\* 1/Unit; range a power of two dividing ScaleUnit, so that scaling is exact).
MkScaler(dmin, range) == [kind |-> "scaler", dmin |-> dmin, range |-> range]

CorruptArtifact == [kind |-> "corrupt"]

\* A fitted model: what it computes from its input (f), an offset k in scaled
\* units, and the shape of the array it returns.
MkModel(f, k, shape) == [kind |-> "model", f |-> f, k |-> k, shape |-> shape]

BtcScaler == MkScaler(90 * Unit, 2 ^ 10)

EthScaler == MkScaler(0, 2 ^ 11)

\* The offset in scaled units that a price difference delta becomes under sc.
ScaledDelta(sc, delta) == delta * (ScaleUnit \div sc.range)

GoodShape == <<1, 1>>

Shapes == {<<1, 1>>, <<1, 2>>, <<1>>, <<1, 1, 1>>, <<2, 1>>}

Lens == {0, 1, 2, WindowLen - 1} \cup (WindowLen .. WindowLen + MaxExtra)

Changes == {0, Unit \div 2, Unit - 1, Unit, 0 - Unit, 5 * Unit, 0 - 5 * Unit}

Deltas == {5 * Unit, 0, 1, 0 - 1, Unit}

\* Differences that put the predicted price on a rounding tie (x.125, x.375);
\* used with DyadicLast only, where the quotient is a dyadic rational too.
EighthDeltas == {Unit \div 8, (3 * Unit) \div 8}

DyadicLast == 32 * Unit

Lasts == {100 * Unit, DyadicLast, 0, 0 - 2 * Unit}

Bads == {"bareInWindow", "noPriceInWindow", "bareBeforeWindow", "bareLast"}

ModelFunctions == {"last", "first", "const"}

ArtifactStates == {"ok", "missing", "corrupt"}

ExtraFiles == {"markets", "double", "text"}

\* One state of the two directories, described by what is stored for btc; eth
\* has a fixed series and fixed artifacts of its own.
BaseScenario ==
    [present |-> TRUE, len |-> WindowLen + MaxExtra, last |-> 100 * Unit,
     change |-> Unit, bad |-> "none", scalerState |-> "ok", modelState |-> "ok",
     f |-> "last", delta |-> 5 * Unit, shape |-> GoodShape, extras |-> {},
     ethModel |-> TRUE]

SeriesScenarios ==
    {[BaseScenario EXCEPT !.len = n, !.last = l, !.change = c] :
        n \in Lens, l \in Lasts, c \in Changes}

ModelScenarios ==
    {[BaseScenario EXCEPT !.len = n, !.last = l, !.f = f, !.delta = d] :
        n \in WindowLen .. WindowLen + MaxExtra, l \in Lasts,
        f \in ModelFunctions, d \in Deltas}
    \cup
    {[BaseScenario EXCEPT !.len = n, !.last = DyadicLast, !.f = f, !.delta = d] :
        n \in WindowLen .. WindowLen + MaxExtra,
        f \in ModelFunctions, d \in EighthDeltas}

MalformedScenarios ==
    {[BaseScenario EXCEPT !.len = n, !.bad = b] : n \in Lens, b \in Bads}

RegistryScenarios ==
    {[BaseScenario EXCEPT !.scalerState = s, !.modelState = m, !.shape = sh,
                          !.len = n, !.ethModel = e] :
        s \in ArtifactStates, m \in ArtifactStates, sh \in Shapes,
        n \in {WindowLen - 1, WindowLen}, e \in BOOLEAN}

DirectoryScenarios ==
    {[BaseScenario EXCEPT !.present = p, !.extras = x] :
        p \in BOOLEAN, x \in SUBSET ExtraFiles}

Scenarios ==
    SeriesScenarios \cup ModelScenarios \cup MalformedScenarios
        \cup RegistryScenarios \cup DirectoryScenarios

EthSeries == Series(WindowLen, 50 * Unit, 2 * Unit, "none")

\* The files of data/ in scenario s.
DataDirOf(s) ==
    LET names ==
            {DataPath(Eth)}
                \cup (IF s.present THEN {DataPath(Btc)} ELSE {})
                \cup (IF "markets" \in s.extras THEN {DataPath(Markets)} ELSE {})
                \cup (IF "double" \in s.extras THEN {DataPath(DataPath(Btc))} ELSE {})
                \cup (IF "text" \in s.extras THEN {<<"notes", ".txt">>} ELSE {})
    IN  [f \in names |->
            IF f = DataPath(Eth) THEN PriceFile(EthSeries)
            ELSE IF f = DataPath(Btc)
                THEN PriceFile(Series(s.len, s.last, s.change, s.bad))
            ELSE IF f = DataPath(Markets) THEN MarketsFile
            ELSE IF f = DataPath(DataPath(Btc))
                THEN PriceFile(Series(MinSignalPoints, s.last, s.change, "none"))
            ELSE TextFile]

\* The files of models/ in scenario s.
ModelsDirOf(s) ==
    LET names ==
            (IF s.ethModel THEN {ScalerPath(Eth), ModelPath(Eth)} ELSE {})
                \cup (IF s.scalerState # "missing" THEN {ScalerPath(Btc)} ELSE {})
                \cup (IF s.modelState # "missing" THEN {ModelPath(Btc)} ELSE {})
    IN  [f \in names |->
            IF f = ScalerPath(Eth) THEN EthScaler
            ELSE IF f = ModelPath(Eth)
                THEN MkModel("first", ScaledDelta(EthScaler, Unit), GoodShape)
            ELSE IF f = ScalerPath(Btc)
                THEN (IF s.scalerState = "ok" THEN BtcScaler ELSE CorruptArtifact)
            ELSE IF s.modelState = "ok"
                THEN MkModel(s.f, ScaledDelta(BtcScaler, s.delta), s.shape)
            ELSE CorruptArtifact]

----------------------------------------------------------------------------
(* Responses.  A handler that returns a dict answers with status 200 and the  *)
(* dict as body; the keys of the body are DOMAIN body.  An error text is a    *)
(* sequence of its parts.                                                     *)

Ok(body) == [status |-> 200, body |-> body]

ErrorResponse(text) == Ok([error |-> text])

\* except Exception as e: return {"error": str(e)}
Caught(exception) == ErrorResponse(<<exception>>)

NoResponse == [status |-> 0, body |-> [none |-> TRUE]]

NoScaler == [kind |-> "none"]

IsError(response) == DOMAIN response.body = {"error"}

----------------------------------------------------------------------------
(* The scaler and the model, as the handler uses them *)

\* scaler.transform(last_60): (x - data_min) / data_range, per element
Transform(sc, win) ==
    [i \in 1 .. Len(win) |-> ((win[i] - sc.dmin) * ScaleUnit) \div sc.range]

\* scaler.inverse_transform([[y]])[0][0]: y * data_range + data_min
InverseTransform(sc, y) == (y * sc.range) \div ScaleUnit + sc.dmin

\* model.predict(X): the model's array, as its shape and its first value
ModelPredict(mdl, X) ==
    [shape |-> mdl.shape,
     value |-> IF mdl.f = "last" THEN X[Len(X)] + mdl.k
               ELSE IF mdl.f = "first" THEN X[1] + mdl.k
               ELSE mdl.k]

\* Mutation: the rank of the output is not checked.
ShapeLastIsOne(shape) == shape[Len(shape)] = 1

\* len(pred.shape) == 2 and pred.shape[1] == 1
ShapeAccepted(shape) == Len(shape) = 2 /\ shape[2] = 1

\* Mutation: prices[:n], the oldest entries instead of the newest.
FirstN(prices, n) == [i \in 1 .. Min(Len(prices), n) |-> prices[i]]

\* prices[-n:]
LastN(prices, n) ==
    LET start == IF Len(prices) > n THEN Len(prices) - n ELSE 0
    IN  [i \in 1 .. (Len(prices) - start) |-> prices[start + i]]

\* The exception of entry["price"] on an entry that is no record with a price.
SubscriptError(entry) ==
    IF entry.form = "bare" THEN "TypeError: not subscriptable" ELSE "KeyError: 'price'"

\* Mutation: a series of 59 entries passes the length check.
TooShortOffByOne(prices) == Len(prices) < WindowLen - 1

\* len(prices) < 60
TooShort(prices) == Len(prices) < WindowLen

\* predict, from open() to the window (lines 29-36): the error response, or the
\* window of raw prices to go on with.
PredictRead(c) ==
    IF DataPath(c) \notin DOMAIN dataDir
    THEN [done |-> TRUE, resp |-> Caught("FileNotFoundError"), window |-> <<>>]
    ELSE
        LET prices == dataDir[DataPath(c)].json
            tail == LastN(prices, WindowLen)
            badAt == {i \in 1 .. Len(tail) : tail[i].form # "record"}
        IN  IF TooShort(prices)
            THEN [done |-> TRUE,
                  resp |-> ErrorResponse(<<"Not enough data. Minimum 60 prices required.">>),
                  window |-> <<>>]
            ELSE IF badAt # {}
            THEN [done |-> TRUE,
                  resp |-> Caught(SubscriptError(
                              tail[CHOOSE i \in badAt : \A j \in badAt : i <= j])),
                  window |-> <<>>]
            ELSE [done |-> FALSE, resp |-> NoResponse,
                  window |-> [i \in 1 .. Len(tail) |-> tail[i].price]]

\* joblib.load(f"models/{coin}_scaler.gz") and load_model(f"models/{coin}.h5")
LoadArtifact(path) ==
    IF path \notin DOMAIN modelsDir
    THEN [ok |-> FALSE, exception |-> "FileNotFoundError", artifact |-> CorruptArtifact]
    ELSE IF modelsDir[path].kind = "corrupt"
    THEN [ok |-> FALSE, exception |-> "corrupt artifact", artifact |-> CorruptArtifact]
    ELSE [ok |-> TRUE, exception |-> "", artifact |-> modelsDir[path]]

\* Mutation: >= in place of >.
DirectionInclusive(predicted, last) == IF predicted >= last THEN "up" ELSE "down"

\* direction = "up" if predicted_price > last_price else "down"
Direction(predicted, last) == IF predicted > last THEN "up" ELSE "down"

\* Mutation: the confidence rounded like a price, to 2 decimals.
ConfidenceTwoDigits(predicted, last) ==
    RoundQuotient(Abs(predicted - last), last, PriceDigits)

\* round(float(abs(predicted_price - last_price) / last_price), 4)
Confidence(predicted, last) ==
    RoundQuotient(Abs(predicted - last), last, ConfidenceDigits)

\* predict, from the scaling to the return (lines 41-61), and whether the
\* inverse transform was applied.
PredictCompute(win, sc, mdl) ==
    LET scaled == Transform(sc, win)
        pred == ModelPredict(mdl, scaled)
        predicted == InverseTransform(sc, pred.value)
        last == win[Len(win)]
    IN  IF Len(scaled) # WindowLen
        THEN [resp |-> Caught("ValueError: cannot reshape array"), inverted |-> FALSE]
        ELSE IF ~ShapeAccepted(pred.shape)
        THEN [resp |-> ErrorResponse(<<"Unexpected prediction shape: ", pred.shape>>),
              inverted |-> FALSE]
        ELSE [resp |-> Ok([prediction |-> Direction(predicted, last),
                           confidence |-> Confidence(predicted, last),
                           predicted_price |-> RoundPrice(predicted, PriceDigits),
                           last_price |-> RoundPrice(last, PriceDigits)]),
              inverted |-> TRUE]

\* predict as one call (lines 28-64): the response for symbol c on the
\* directories as they are.
PredictAlone(c) ==
    LET read == PredictRead(c)
        sc == LoadArtifact(ScalerPath(c))
        mdl == LoadArtifact(ModelPath(c))
    IN  IF read.done THEN read.resp
        ELSE IF ~sc.ok THEN Caught(sc.exception)
        ELSE IF ~mdl.ok THEN Caught(mdl.exception)
        ELSE PredictCompute(read.window, sc.artifact, mdl.artifact).resp

\* Mutation: the scaler kept in one process-wide variable, so that a request
\* may find there the scaler another request has loaded.
SharedScaler(r) == scaler[CHOOSE q \in Clients : pc[q] = "loadModel"]

\* The local variable scaler of request r.
LocalScaler(r) == scaler[r]

----------------------------------------------------------------------------
(* signal, debug_prices, available_coins *)

\* Mutation: <= in place of <.
SignalOfInclusive(change) ==
    IF Abs(change) <= HoldThreshold * Unit THEN "hold"
    ELSE IF change > 0 THEN "buy" ELSE "sell"

\* the signal of a change (lines 144-149)
SignalOf(change) ==
    IF Abs(change) < HoldThreshold * Unit THEN "hold"
    ELSE IF change > 0 THEN "buy" ELSE "sell"

\* get_signal (lines 133-154)
SignalResponse(c) ==
    IF DataPath(c) \notin DOMAIN dataDir THEN Caught("FileNotFoundError")
    ELSE
        LET prices == dataDir[DataPath(c)].json
            n == Len(prices)
        IN  IF n < MinSignalPoints THEN ErrorResponse(<<"Not enough data">>)
            ELSE IF prices[n].form # "record" THEN Caught(SubscriptError(prices[n]))
            ELSE IF prices[n - 1].form # "record"
            THEN Caught(SubscriptError(prices[n - 1]))
            ELSE LET change == prices[n].price - prices[n - 1].price
                 IN  Ok([signal |-> SignalOf(change),
                         change |-> RoundPrice(change, SignalDigits)])

\* entry["price"] if isinstance(entry, dict) and "price" in entry else entry
Cleaned(entry) ==
    IF entry.form = "noprice" THEN [dict |-> "noprice"] ELSE [number |-> entry.price]

\* debug_prices (lines 79-85)
DebugResponse(c) ==
    IF DataPath(c) \notin DOMAIN dataDir THEN Caught("FileNotFoundError")
    ELSE
        LET prices == dataDir[DataPath(c)].json
        IN  Ok([coin |-> c,
                last_60_prices |->
                    LastN([i \in 1 .. Len(prices) |-> Cleaned(prices[i])], WindowLen)])

\* os.listdir("data"): the names in the directory's order, which is some fixed
\* order for a fixed directory.
RECURSIVE ListDir(_)
ListDir(names) ==
    IF names = {} THEN <<>>
    ELSE LET f == CHOOSE x \in names : TRUE
         IN  <<f>> \o ListDir(names \ {f})

\* [f.replace(".json", "") for f in files if f.endswith(".json")]
CoinsOf(files) ==
    LET kept == SelectSeq(files, EndsWithJson)
    IN  [i \in 1 .. Len(kept) |-> StripJson(kept[i])]

\* available_coins (lines 69-74)
AvailableResponse == Ok([coins |-> CoinsOf(ListDir(DOMAIN dataDir))])

----------------------------------------------------------------------------
(* The requests.  Each client runs one request at a time; pc is its place in  *)
(* the handler, and window, scaler, loads and inverted are the handler's      *)
(* locals and what it has done so far.                                        *)

Idle(r) == pc[r] = "idle"

Start(r, o, c) ==
    /\ Idle(r)
    /\ op' = [op EXCEPT ![r] = o]
    /\ coin' = [coin EXCEPT ![r] = c]

Finish(r, response) ==
    /\ pc' = [pc EXCEPT ![r] = "done"]
    /\ resp' = [resp EXCEPT ![r] = response]

\* predict: open the data file, check the length, take the window (lines 29-36)
PredictBegin(r, c) ==
    /\ Start(r, "predict", c)
    /\ LET read == PredictRead(c)
       IN  /\ window' = [window EXCEPT ![r] = read.window]
           /\ IF read.done
              THEN Finish(r, read.resp)
              ELSE /\ pc' = [pc EXCEPT ![r] = "loadScaler"]
                   /\ UNCHANGED resp
    /\ UNCHANGED <<storage, scaler, loads, inverted>>

\* predict: load the scaler (line 38)
PredictLoadScaler(r) ==
    /\ pc[r] = "loadScaler"
    /\ loads' = [loads EXCEPT ![r] = @ \cup {"scaler"}]
    /\ LET got == LoadArtifact(ScalerPath(coin[r]))
       IN  IF got.ok
           THEN /\ scaler' = [scaler EXCEPT ![r] = got.artifact]
                /\ pc' = [pc EXCEPT ![r] = "loadModel"]
                /\ UNCHANGED resp
           ELSE /\ Finish(r, Caught(got.exception))
                /\ UNCHANGED scaler
    /\ UNCHANGED <<storage, op, coin, window, inverted>>

\* predict: load the model, scale, predict, check the shape, derive the result
\* (lines 39-61)
PredictLoadModel(r) ==
    /\ pc[r] = "loadModel"
    /\ loads' = [loads EXCEPT ![r] = @ \cup {"model"}]
    /\ LET got == LoadArtifact(ModelPath(coin[r]))
           out == PredictCompute(window[r], LocalScaler(r), got.artifact)
       IN  IF got.ok
           THEN /\ Finish(r, out.resp)
                /\ inverted' = [inverted EXCEPT ![r] = out.inverted]
           ELSE /\ Finish(r, Caught(got.exception))
                /\ UNCHANGED inverted
    /\ UNCHANGED <<storage, op, coin, window, scaler>>

Signal(r, c) ==
    /\ Start(r, "signal", c)
    /\ Finish(r, SignalResponse(c))
    /\ UNCHANGED <<storage, window, scaler, loads, inverted>>

DebugPrices(r, c) ==
    /\ Start(r, "debug_prices", c)
    /\ Finish(r, DebugResponse(c))
    /\ UNCHANGED <<storage, window, scaler, loads, inverted>>

AvailableCoins(r) ==
    /\ Start(r, "available_coins", <<>>)
    /\ Finish(r, AvailableResponse)
    /\ UNCHANGED <<storage, window, scaler, loads, inverted>>

\* The response is delivered and the client is free for its next request.
Release(r) ==
    /\ pc[r] = "done"
    /\ pc' = [pc EXCEPT ![r] = "idle"]
    /\ op' = [op EXCEPT ![r] = "none"]
    /\ coin' = [coin EXCEPT ![r] = <<>>]
    /\ window' = [window EXCEPT ![r] = <<>>]
    /\ scaler' = [scaler EXCEPT ![r] = NoScaler]
    /\ loads' = [loads EXCEPT ![r] = {}]
    /\ inverted' = [inverted EXCEPT ![r] = FALSE]
    /\ resp' = [resp EXCEPT ![r] = NoResponse]
    /\ UNCHANGED storage

InitRequests ==
    /\ pc = [r \in Clients |-> "idle"]
    /\ op = [r \in Clients |-> "none"]
    /\ coin = [r \in Clients |-> <<>>]
    /\ window = [r \in Clients |-> <<>>]
    /\ scaler = [r \in Clients |-> NoScaler]
    /\ loads = [r \in Clients |-> {}]
    /\ inverted = [r \in Clients |-> FALSE]
    /\ resp = [r \in Clients |-> NoResponse]

Init ==
    /\ \E s \in Scenarios :
        /\ dataDir = DataDirOf(s)
        /\ modelsDir = ModelsDirOf(s)
    /\ InitRequests

\* No other client has a request in flight.
Alone(r) == \A q \in Clients \ {r} : Idle(q)

\* One request at a time, on any state of the directories.
Next ==
    \E r \in Clients :
        \/ \E c \in Symbols : Alone(r) /\ PredictBegin(r, c)
        \/ Alone(r) /\ PredictLoadScaler(r)
        \/ Alone(r) /\ PredictLoadModel(r)
        \/ \E c \in Symbols : Alone(r) /\ Signal(r, c)
        \/ \E c \in Symbols : Alone(r) /\ DebugPrices(r, c)
        \/ Alone(r) /\ AvailableCoins(r)
        \/ Alone(r) /\ Release(r)

Spec == Init /\ [][Next]_vars

\* Directory states for the concurrent runs: both symbols predictable, with
\* different series, scalers and models.
ConcurrentScenarios ==
    {[BaseScenario EXCEPT !.len = n, !.f = f, !.delta = d, !.shape = sh] :
        n \in {WindowLen - 1, WindowLen + MaxExtra}, f \in {"last", "first"},
        d \in {5 * Unit, 0 - 1}, sh \in {<<1, 1>>, <<1, 2>>}}

InitConcurrent ==
    /\ \E s \in ConcurrentScenarios :
        /\ dataDir = DataDirOf(s)
        /\ modelsDir = ModelsDirOf(s)
    /\ InitRequests

\* Any number of predict calls in flight at once, their steps interleaved.
NextConcurrent ==
    \E r \in Clients :
        \/ \E c \in {Btc, Eth, Doge} : PredictBegin(r, c)
        \/ PredictLoadScaler(r)
        \/ PredictLoadModel(r)
        \/ Release(r)

SpecConcurrent == InitConcurrent /\ [][NextConcurrent]_vars

----------------------------------------------------------------------------
(* What the properties speak of, read from the directories *)

Present(c) == DataPath(c) \in DOMAIN dataDir

Stored(c) == dataDir[DataPath(c)].json

Done(r, o) == pc[r] = "done" /\ op[r] = o

ArtifactLoads(path) == path \in DOMAIN modelsDir /\ modelsDir[path].kind # "corrupt"

\* The stored entries n-60 .. n-1 (counting from 0) are records with a price.
WindowWellFormed(c) ==
    \A i \in 1 .. Len(Stored(c)) :
        i > Len(Stored(c)) - WindowLen => Stored(c)[i].form = "record"

\* The symbol has at least 60 stored entries, its window is well formed, and
\* both its artifacts load.
Predictable(c) ==
    /\ Present(c)
    /\ Len(Stored(c)) >= WindowLen
    /\ WindowWellFormed(c)
    /\ ArtifactLoads(ScalerPath(c))
    /\ ArtifactLoads(ModelPath(c))

\* The raw price of the final stored entry.
LastRaw(c) == Stored(c)[Len(Stored(c))].price

\* The prices of the stored entries n-60 .. n-1, in stored order.
StoredWindow(c) ==
    [i \in 1 .. WindowLen |-> Stored(c)[Len(Stored(c)) - WindowLen + i].price]

\* The denormalized, unrounded predicted price for a predictable symbol.
PredictedRaw(c) ==
    LET sc == modelsDir[ScalerPath(c)]
    IN  InverseTransform(sc,
            ModelPredict(modelsDir[ModelPath(c)], Transform(sc, StoredWindow(c))).value)

OutputShape(c) == modelsDir[ModelPath(c)].shape

ResultKeys == {"prediction", "confidence", "predicted_price", "last_price"}

IsResult(response) == DOMAIN response.body = ResultKeys

\* v is the integer nearest to n / d (d > 0), the even one on a tie.
Nearest(v, n, d) ==
    /\ 2 * Abs(v * d - n) <= d
    /\ 2 * Abs(v * d - n) = d => v % 2 = 0

InsufficientData == ErrorResponse(<<"Not enough data. Minimum 60 prices required.">>)

----------------------------------------------------------------------------
(* C1: for every symbol with at least 60 record-form entries whose artifacts  *)
(* load and whose model returns one value per sample, whatever the prices,    *)
(* predict returns a result payload whose prediction is "up" or "down" and    *)
(* whose confidence is a number >= 0.                                         *)
C1_UpOrDownAndNonNegative ==
    \A r \in Clients :
        (Done(r, "predict") /\ Predictable(coin[r])
            /\ Len(OutputShape(coin[r])) = 2 /\ OutputShape(coin[r])[2] = 1)
        => /\ IsResult(resp[r])
           /\ resp[r].body.prediction \in {"up", "down"}
           /\ resp[r].body.confidence.kind # "nan"
           /\ resp[r].body.confidence.v >= 0

(* C2: predict on a stored series of fewer than 60 entries ends at once with  *)
(* the insufficient-data error, and loads neither the scaler nor the model.   *)
C2_ShortSeriesNeverLoads ==
    \A r \in Clients :
        (op[r] = "predict" /\ Present(coin[r]) /\ Len(Stored(coin[r])) < WindowLen)
        => /\ pc[r] = "done"
           /\ resp[r] = InsufficientData
           /\ loads[r] = {}

C2_Witness ==
    \E r \in Clients :
        /\ Done(r, "predict")
        /\ Present(coin[r])
        /\ Len(Stored(coin[r])) = WindowLen - 1
        /\ resp[r] = InsufficientData

\* A failure of predict: no data file, a malformed window, an artifact that
\* does not load, an output of another shape, or a last price of 0.
PredictFails(c) ==
    \/ ~Present(c)
    \/ Len(Stored(c)) < WindowLen
    \/ ~WindowWellFormed(c)
    \/ ~ArtifactLoads(ScalerPath(c))
    \/ ~ArtifactLoads(ModelPath(c))
    \/ ~(Len(OutputShape(c)) = 2 /\ OutputShape(c)[2] = 1)
    \/ LastRaw(c) = 0

(* C3: every failure inside predict ends in a status-200 response whose body  *)
(* is {error: text}; no response mixes an error with result fields.           *)
C3_EveryFailureIsAnErrorPayload ==
    \A r \in Clients :
        Done(r, "predict")
        => /\ resp[r].status = 200
           /\ IsError(resp[r]) \/ IsResult(resp[r])
           /\ PredictFails(coin[r]) => IsError(resp[r])

(* C4: in every successful predict the prediction is "up" exactly when the    *)
(* unrounded predicted price is strictly greater than the last raw price,     *)
(* and "down" otherwise, equality included.                                   *)
C4_UpIffStrictlyGreater ==
    \A r \in Clients :
        (Done(r, "predict") /\ IsResult(resp[r]))
        => /\ PredictedRaw(coin[r]) > LastRaw(coin[r]) => resp[r].body.prediction = "up"
           /\ PredictedRaw(coin[r]) <= LastRaw(coin[r]) => resp[r].body.prediction = "down"

C4_Witness ==
    \E r \in Clients :
        /\ Done(r, "predict") /\ IsResult(resp[r])
        /\ LastRaw(coin[r]) = 100 * Unit
        /\ PredictedRaw(coin[r]) = 100 * Unit
        /\ resp[r].body.prediction = "down"

(* C5: in every successful predict the confidence is |predicted - last| /     *)
(* last rounded to 4 decimals (not a finite number when last is 0), and       *)
(* predicted_price and last_price are the two prices rounded to 2 decimals;   *)
(* last 100 and predicted 105 give "up" and 0.05.                             *)
C5_RoundedResult ==
    \A r \in Clients :
        (Done(r, "predict") /\ IsResult(resp[r]))
        => LET last == LastRaw(coin[r])
               predicted == PredictedRaw(coin[r])
               body == resp[r].body
           IN  /\ last > 0 =>
                    /\ body.confidence.kind = "num"
                    /\ Nearest(body.confidence.v,
                               Abs(predicted - last) * Pow10(4), last)
               /\ last < 0 =>
                    /\ body.confidence.kind = "num"
                    /\ Nearest(body.confidence.v,
                               (0 - Abs(predicted - last)) * Pow10(4), 0 - last)
               /\ last = 0 => body.confidence.kind # "num"
               /\ Nearest(body.predicted_price, predicted * Pow10(2), Unit)
               /\ Nearest(body.last_price, last * Pow10(2), Unit)
               /\ (last = 100 * Unit /\ predicted = 105 * Unit) =>
                    /\ body.prediction = "up"
                    /\ body.confidence = [kind |-> "num", v |-> 500]

C5_Witness ==
    \E r \in Clients :
        /\ Done(r, "predict") /\ IsResult(resp[r])
        /\ LastRaw(coin[r]) = 100 * Unit
        /\ PredictedRaw(coin[r]) = 105 * Unit
        /\ resp[r].body.confidence = [kind |-> "num", v |-> 500]
        /\ resp[r].body.predicted_price = 10500

(* C6: signal on fewer than 2 stored points gives an error payload; on a      *)
(* series whose last two entries are records it returns "hold" exactly when   *)
(* |change| < 1, else "buy" when change > 0 and "sell" when change < 0, with  *)
(* change the last price minus the one before; change = 1 is "buy" and        *)
(* change = -1 is "sell".                                                     *)
C6_SignalThresholds ==
    \A r \in Clients :
        (Done(r, "signal") /\ Present(coin[r]))
        => LET prices == Stored(coin[r])
               n == Len(prices)
           IN  /\ n < 2 => IsError(resp[r])
               /\ (n >= 2 /\ prices[n].form = "record" /\ prices[n - 1].form = "record")
                  => LET change == prices[n].price - prices[n - 1].price
                     IN  /\ DOMAIN resp[r].body = {"signal", "change"}
                         /\ (resp[r].body.signal = "hold")
                                <=> (change > 0 - Unit /\ change < Unit)
                         /\ (resp[r].body.signal = "buy") <=> change >= Unit
                         /\ (resp[r].body.signal = "sell") <=> change <= 0 - Unit

C6_Witness ==
    \E r \in Clients :
        /\ Done(r, "signal") /\ Present(coin[r])
        /\ Len(Stored(coin[r])) > 2
        /\ LastRaw(coin[r]) - Stored(coin[r])[Len(Stored(coin[r])) - 1].price = Unit
        /\ DOMAIN resp[r].body = {"signal", "change"}
        /\ resp[r].body.signal = "buy"

\* The symbol has a backing price-storage artifact that the handlers can open.
HasPriceArtifact(c) == Present(c) /\ dataDir[DataPath(c)].role = "prices"

(* C7: the available-coins listing holds exactly the symbols that have a      *)
(* backing price-storage artifact.                                            *)
C7_ListingIsExactlyThePriceArtifacts ==
    \A r \in Clients :
        Done(r, "available_coins")
        => LET coins == resp[r].body.coins
               listed == {coins[i] : i \in 1 .. Len(coins)}
           IN  \A c \in Symbols \cup listed : c \in listed <=> HasPriceArtifact(c)

(* C8: predict calls are independent.  However the steps of concurrent calls  *)
(* interleave, each call returns the response it returns when run alone, and  *)
(* no step changes the data or the models directory.                          *)
C8_IndependentOfInterleaving ==
    /\ [](\A r \in Clients : Done(r, "predict") => resp[r] = PredictAlone(coin[r]))
    /\ [][dataDir' = dataDir /\ modelsDir' = modelsDir]_vars

C8_Witness ==
    \E r \in Clients : \E q \in Clients \ {r} :
        /\ Done(r, "predict") /\ IsResult(resp[r])
        /\ op[q] = "predict" /\ pc[q] = "loadModel"
        /\ coin[q] # coin[r]

(* C9: for a stored series of n >= 60 entries the window predict works on is  *)
(* the prices of entries n-60 .. n-1 in stored order, last_price is the raw   *)
(* price of entry n-1 rounded to 2 decimals, and the response is the one      *)
(* computed from those 60 entries alone.                                      *)
C9_WindowIsTheLastSixty ==
    \A r \in Clients :
        (op[r] = "predict" /\ Present(coin[r]) /\ Len(Stored(coin[r])) >= WindowLen
            /\ WindowWellFormed(coin[r]))
        => /\ window[r] = StoredWindow(coin[r])
           /\ (pc[r] = "done" /\ IsResult(resp[r]))
              => /\ Nearest(resp[r].body.last_price,
                            StoredWindow(coin[r])[WindowLen] * Pow10(2), Unit)
                 /\ resp[r] = PredictCompute(StoredWindow(coin[r]),
                                             modelsDir[ScalerPath(coin[r])],
                                             modelsDir[ModelPath(coin[r])]).resp

C9_Witness ==
    \E r \in Clients :
        /\ Done(r, "predict") /\ IsResult(resp[r])
        /\ Len(Stored(coin[r])) > WindowLen
        /\ Stored(coin[r])[Len(Stored(coin[r])) - WindowLen].form = "bare"

(* C10: predict accepts the model output only when it is 2-dimensional with   *)
(* second dimension 1; for any other shape it returns the error payload that  *)
(* names the shape, never applies the inverse transform, and returns no       *)
(* result field.                                                              *)
C10_OnlyOneValuePerSample ==
    \A r \in Clients :
        (Done(r, "predict") /\ Predictable(coin[r]))
        => LET shape == OutputShape(coin[r])
           IN  IF Len(shape) = 2 /\ shape[2] = 1
               THEN IsResult(resp[r]) /\ inverted[r]
               ELSE /\ resp[r] = ErrorResponse(<<"Unexpected prediction shape: ", shape>>)
                    /\ ~inverted[r]

C10_Witness ==
    \E r \in Clients :
        /\ Done(r, "predict") /\ Predictable(coin[r])
        /\ OutputShape(coin[r]) = <<1, 1, 1>>
        /\ IsError(resp[r])
        /\ ~inverted[r]

====
